---- MODULE Spec2Model ----
(***************************************************************************)
(* Instance binding and virtual dispatch bridge of gdext.                  *)
(*                                                                         *)
(*  - godot-core/src/registry/callbacks.rs: the callbacks handed to the    *)
(*    host (create, recreate, free, the borrowing entry points).           *)
(*  - godot-macros/src/class/data_models/interface_trait_impl.rs: the code *)
(*    generated for `#[godot_api] impl ISomething for MyType` (the table   *)
(*    behind __virtual_call).                                              *)
(*                                                                         *)
(* Five specifications share the module: Spec drives the callbacks of one  *)
(* class at run time, with reentrant calls; VSpec expands one trait impl   *)
(* under one build configuration and queries the generated virtual table;  *)
(* DSpec queries default_get_virtual on the same expansion; RSpec drives   *)
(* reference / unreference on one instance; PSpec drives the property      *)
(* callbacks of one instance, each from its call to its return.            *)
(***************************************************************************)
EXTENDS Integers, Sequences, FiniteSets, TLC

VARIABLES
    api,        \* build configuration: the targeted API level (41 = 4.1, ...)
    nextAddr,   \* next address handed out by the host / the Rust allocator
    hostObjs,   \* addresses of the host-side objects
    objInstance,\* host side: object -> instance pointer (object_set_instance)
    objBinding, \* host side: object -> binding pointer (object_set_instance_binding)
    storage,    \* instance pointer -> InstanceStorage record
    calls,      \* the calls made by the last create / recreate, in order
    ret,        \* the value returned by the last create / recreate
    lastOp,     \* the last completed create / recreate ("none" before)
    stack,      \* the callbacks in progress, innermost last
    fatal,      \* the fatal contract violation that ended the process, if any
    stale,      \* instances accessed through a dangling pointer without detection
    base,       \* VSpec: base class named by the implemented trait (IBase)
    items,      \* VSpec: the impl's body items, [name, cfg]
    feat,       \* VSpec: build configuration, value of the cfg predicate
    gv,         \* VSpec: the last get_virtual query and its result
    dgv,        \* VSpec: the last default_get_virtual query and its result
    delivered,  \* VSpec: what the last ready delivery ran, in order
    nDelivered, \* VSpec: number of ready deliveries so far
    hookRuns,   \* VSpec: number of __before_ready runs so far
    bodyRuns,   \* VSpec: number of runs of the user's ready body so far
    nprops,     \* PSpec: number of dynamic properties the user's class declares
    lists,      \* PSpec: the property-list arrays handed to the host so far
    out,        \* PSpec: the last property callback, its return value and slot
    refLog,     \* RSpec: per instance, the count at the start and the calls made
    listLen,    \* CSpec: length of the list the user's get_property_list returns
    countField, \* CSpec: the host's u32 count field
    plugin      \* GSpec: the ITraitImpl descriptor added to the plugin registry

lvars == <<nextAddr, hostObjs, objInstance, objBinding, storage, calls, ret,
           lastOp, stack, fatal, stale>>
vvars == <<base, items, feat, gv, dgv, delivered, nDelivered, hookRuns, bodyRuns>>
pvars == <<nprops, lists, out, refLog>>
cvars == <<listLen, countField, plugin>>
vars == <<api, lvars, vvars, pvars, cvars>>

\* Bounds of the model.
MaxAddr == 4
MaxDepth == 2
MaxFrees == 2
MaxItems == 2
MaxDeliveries == 2
MaxCount == 2
MaxRefCalls == 3
MaxProps == 2
MaxLists == 2

\* cfg(since_api = "4.x") / cfg(before_api = "4.x"), with 4.x written 4x.
ApiVersions == {41, 42, 43, 44}
since_api(v) == api >= v
before_api(v) == api < v

NoFatal == [ep |-> "none", inst |-> 0, cause |-> "none"]
None == [kind |-> "None", method |-> ""]
Some(before_kind, method) == [kind |-> before_kind, method |-> method]
NoQuery == [name |-> "none", hash |-> 0, result |-> None]
\* Option<Variant> coming from user code, and the host's output slot.
NoneV == [some |-> FALSE, value |-> 0]
SomeV(v) == [some |-> TRUE, value |-> v]
Unwritten == [written |-> FALSE, value |-> 0]
Written(v) == [written |-> TRUE, value |-> v]
\* A usize in two limbs, hi * 2^16 + lo, and the count field before a write.
Limb == 65536
usize(hi, lo) == [hi |-> hi, lo |-> lo]
NoCount == [written |-> FALSE, value |-> usize(0, 0), array |-> usize(0, 0)]
\* PluginItem::ITraitImpl: for each field whether it holds a callback, before
\* the plugin is added.
NoPlugin ==
    [added |-> FALSE, user_register_fn |-> FALSE, user_create_fn |-> FALSE,
     user_recreate_fn |-> FALSE, user_to_string_fn |-> FALSE,
     user_on_notification_fn |-> FALSE, user_set_fn |-> FALSE,
     user_get_fn |-> FALSE, user_get_property_list_fn |-> FALSE,
     user_free_property_list_fn |-> FALSE, user_property_get_revert_fn |-> FALSE,
     user_property_can_revert_fn |-> FALSE, get_virtual_fn |-> FALSE]
NoOut == [ep |-> "none", inst |-> 0, name |-> 0, ret |-> FALSE,
          slot |-> Unwritten, list |-> 0, count |-> 0]

----------------------------------------------------------------------------
\* Instance storage (crate::storage): lifecycle and borrow state of a record.

\* InstanceStorage::construct(user_instance, base)
InstanceStorage_construct(base_ptr) ==
    [base |-> base_ptr, lifecycle |-> "Created", shared |-> 0, excl |-> FALSE,
     frees |-> 0, drops |-> 0, refs |-> 0, user |-> [n \in 1..nprops |-> 10]]

Instances == DOMAIN storage
Live(i) == i \in Instances /\ storage[i].lifecycle # "Freed"
Borrowed(i) == storage[i].shared > 0 \/ storage[i].excl

\* Storage::get / Storage::get_mut on a record that is still allocated:
\* "ok" or the cause of the fatal contract violation.
BorrowOutcome(i, kind) ==
    IF storage[i].lifecycle # "Created" THEN "destroyed"
    ELSE IF storage[i].excl THEN "reentrant"
    ELSE IF kind = "exclusive" /\ storage[i].shared > 0 THEN "reentrant"
    ELSE "ok"

Acquire(i, kind) ==
    IF kind = "exclusive"
    THEN [storage EXCEPT ![i].excl = TRUE]
    ELSE [storage EXCEPT ![i].shared = @ + 1]

Release(i, kind) ==
    IF kind = "exclusive"
    THEN [storage EXCEPT ![i].excl = FALSE]
    ELSE [storage EXCEPT ![i].shared = @ - 1]

Running == fatal.cause = "none"

----------------------------------------------------------------------------
\* create / recreate

Call(fn, obj, inst) == [fn |-> fn, obj |-> obj, inst |-> inst]

\* A binding step that never issues object_set_instance_binding.
create_rust_part_without_binding(base_ptr, instance_ptr, pre) ==
    /\ instance_ptr <= MaxAddr
    /\ storage' = (instance_ptr :> InstanceStorage_construct(base_ptr)) @@ storage
    /\ objInstance' = (base_ptr :> instance_ptr) @@ objInstance
    /\ objBinding' = objBinding
    /\ calls' = pre \o << Call("make_user_instance", base_ptr, 0),
                          Call("InstanceStorage::construct", base_ptr, instance_ptr),
                          Call("object_set_instance", base_ptr, instance_ptr) >>
    /\ nextAddr' = instance_ptr + 1

\* A binding step that builds the record around the oldest host object
\* instead of the one it was given.
create_rust_part_with_wrong_base(base_ptr, instance_ptr, pre) ==
    LET first == CHOOSE o \in hostObjs \cup {base_ptr} :
                     \A q \in hostObjs \cup {base_ptr} : o <= q IN
    /\ instance_ptr <= MaxAddr
    /\ storage' = (instance_ptr :> InstanceStorage_construct(first)) @@ storage
    /\ objInstance' = (base_ptr :> instance_ptr) @@ objInstance
    /\ objBinding' = (base_ptr :> instance_ptr) @@ objBinding
    /\ calls' = pre \o << Call("make_user_instance", first, 0),
                          Call("InstanceStorage::construct", first, instance_ptr),
                          Call("object_set_instance", base_ptr, instance_ptr),
                          Call("object_set_instance_binding", base_ptr, instance_ptr) >>
    /\ nextAddr' = instance_ptr + 1

\* The user factory runs once, its result is boxed into one new record at
\* instance_ptr, and the record is linked to base_ptr by the two host calls.
create_rust_part_for_existing_godot_part(base_ptr, instance_ptr, pre) ==
    /\ instance_ptr <= MaxAddr
    /\ storage' = (instance_ptr :> InstanceStorage_construct(base_ptr)) @@ storage
    /\ objInstance' = (base_ptr :> instance_ptr) @@ objInstance
    /\ objBinding' = (base_ptr :> instance_ptr) @@ objBinding
    /\ calls' = pre \o << Call("make_user_instance", base_ptr, 0),
                          Call("InstanceStorage::construct", base_ptr, instance_ptr),
                          Call("object_set_instance", base_ptr, instance_ptr),
                          Call("object_set_instance_binding", base_ptr, instance_ptr) >>
    /\ nextAddr' = instance_ptr + 1

\* A create_custom that hands back the instance pointer.
create_custom_returning_instance ==
    LET base_ptr == nextAddr IN
    /\ hostObjs' = hostObjs \cup {base_ptr}
    /\ create_rust_part_for_existing_godot_part(
           base_ptr, base_ptr + 1,
           << Call("classdb_construct_object", base_ptr, 0) >>)
    /\ ret' = base_ptr + 1

create_custom ==
    LET base_ptr == nextAddr IN   \* classdb_construct_object(base_class_name)
    /\ hostObjs' = hostObjs \cup {base_ptr}
    /\ create_rust_part_for_existing_godot_part(
           base_ptr, base_ptr + 1,
           << Call("classdb_construct_object", base_ptr, 0) >>)
    /\ ret' = base_ptr

create ==
    /\ Running
    /\ create_custom
    /\ lastOp' = "create"
    /\ UNCHANGED <<api, stack, fatal, stale, vvars, pvars, cvars>>

\* A recreate that goes through create_custom and so constructs a host object.
recreate_constructing(object) ==
    /\ Running
    /\ since_api(42)
    /\ object \in hostObjs
    /\ ~Live(objInstance[object])
    /\ create_custom
    /\ lastOp' = "recreate"
    /\ UNCHANGED <<api, stack, fatal, stale, vvars, pvars, cvars>>

\* Hot reload: the host hands in an object whose Rust part was disposed.
recreate(object) ==
    /\ Running
    /\ since_api(42)
    /\ object \in hostObjs
    /\ ~Live(objInstance[object])
    /\ create_rust_part_for_existing_godot_part(object, nextAddr, << >>)
    /\ ret' = nextAddr
    /\ lastOp' = "recreate"
    /\ UNCHANGED <<api, hostObjs, stack, fatal, stale, vvars, pvars, cvars>>

----------------------------------------------------------------------------
\* free

Frame(ep, inst, kind) == [ep |-> ep, inst |-> inst, kind |-> kind]
Fatal(ep, inst, cause) == [ep |-> ep, inst |-> inst, cause |-> cause]

\* Storage::mark_destroyed_by_godot: Created -> MarkedDestroyed.
mark_destroyed_by_godot(i) ==
    [storage EXCEPT ![i].lifecycle = "MarkedDestroyed"]

\* destroy_storage: drops the box; the record is Freed (deallocated).
destroy_storage(i) ==
    [storage EXCEPT ![i].lifecycle = "Freed", ![i].drops = @ + 1]

\* A free whose first block does not mark the record.
free_mark_skipped(instance) ==
    storage

\* First block of free: as_storage(instance).mark_destroyed_by_godot().
free_mark(instance) ==
    mark_destroyed_by_godot(instance)

\* A free that returns without tearing the record down.
free_teardown_skipped(instance) ==
    storage

\* Last statement of free: destroy_storage(instance).
free_teardown(instance) ==
    destroy_storage(instance)

\* The host calls free. On a record that is still Created the record is marked
\* and teardown starts (the user instance's destructor runs, and may call back
\* into the host). A second free of the same pointer is a double drop:
\* undefined, so either the process dies or the drop goes through unnoticed.
\* The host does not free an instance while it is inside one of its callbacks.
free(instance) ==
    /\ Running
    /\ instance \in Instances
    /\ Len(stack) < MaxDepth
    /\ storage[instance].frees < MaxFrees
    /\ ~Borrowed(instance)
    /\ IF storage[instance].lifecycle = "Created"
       THEN /\ storage' = [free_mark(instance) EXCEPT ![instance].frees = @ + 1]
            /\ stack' = Append(stack, Frame("free", instance, "teardown"))
            /\ UNCHANGED fatal
       ELSE \/ /\ fatal' = Fatal("free", instance, "double_free")
               /\ storage' = [storage EXCEPT ![instance].frees = @ + 1]
               /\ UNCHANGED stack
            \/ /\ storage' = [storage EXCEPT ![instance].frees = @ + 1,
                                             ![instance].drops = @ + 1]
               /\ UNCHANGED <<stack, fatal>>
    /\ UNCHANGED <<api, nextAddr, hostObjs, objInstance, objBinding, calls, ret,
                   lastOp, stale, vvars, pvars, cvars>>

\* Teardown is over and free returns.
free_return ==
    /\ Running
    /\ stack # << >>
    /\ stack[Len(stack)].kind = "teardown"
    /\ storage' = free_teardown(stack[Len(stack)].inst)
    /\ stack' = SubSeq(stack, 1, Len(stack) - 1)
    /\ UNCHANGED <<api, nextAddr, hostObjs, objInstance, objBinding, calls, ret,
                   lastOp, fatal, stale, vvars, pvars, cvars>>

----------------------------------------------------------------------------
\* The borrowing entry points.

\* as_storage(instance) followed by storage.get() (kind "shared") or
\* storage.get_mut() (kind "exclusive"); the guard lives as long as the
\* callback runs user code. On a Freed record as_storage yields a dangling
\* reference: the access is undefined, it is either caught or goes through on
\* the dead memory.
BorrowAndCall(ep, instance, kind) ==
    /\ Running
    /\ instance \in Instances
    /\ Len(stack) < MaxDepth
    /\ IF storage[instance].lifecycle = "Freed"
       THEN \/ /\ fatal' = Fatal(ep, instance, "destroyed")
               /\ UNCHANGED <<storage, stack, stale>>
            \/ /\ stale' = stale \cup {instance}
               /\ UNCHANGED <<storage, stack, fatal>>
       ELSE IF BorrowOutcome(instance, kind) = "ok"
       THEN /\ storage' = Acquire(instance, kind)
            /\ stack' = Append(stack, Frame(ep, instance, kind))
            /\ UNCHANGED <<fatal, stale>>
       ELSE /\ fatal' = Fatal(ep, instance, BorrowOutcome(instance, kind))
            /\ UNCHANGED <<storage, stack, stale>>
    /\ UNCHANGED <<api, nextAddr, hostObjs, objInstance, objBinding, calls, ret,
                   lastOp, vvars, pvars, cvars>>

to_string(instance) == BorrowAndCall("to_string", instance, "shared")

\* on_notification through storage.get() instead of storage.get_mut().
on_notification_shared(instance) ==
    BorrowAndCall("on_notification", instance, "shared")

on_notification(instance) == BorrowAndCall("on_notification", instance, "exclusive")

\* get_property through storage.get_mut().
get_property_exclusive(instance) ==
    BorrowAndCall("get_property", instance, "exclusive")

get_property(instance) == BorrowAndCall("get_property", instance, "shared")

set_property(instance) == BorrowAndCall("set_property", instance, "exclusive")

get_property_list(instance) ==
    /\ since_api(43)
    /\ BorrowAndCall("get_property_list", instance, "exclusive")

raw_property_get_revert(ep, instance) == BorrowAndCall(ep, instance, "shared")

property_can_revert(instance) == raw_property_get_revert("property_can_revert", instance)

property_get_revert(instance) == raw_property_get_revert("property_get_revert", instance)

\* A return that never drops the guard (the guard is forgotten).
drop_guard_forgotten ==
    /\ storage' = storage
    /\ stack' = SubSeq(stack, 1, Len(stack) - 1)

\* The guard bound to `instance` goes out of scope at the end of the
\* innermost callback.
drop_guard ==
    /\ storage' = Release(stack[Len(stack)].inst, stack[Len(stack)].kind)
    /\ stack' = SubSeq(stack, 1, Len(stack) - 1)

\* The innermost borrowing callback returns: its guard is dropped.
callback_return ==
    /\ Running
    /\ stack # << >>
    /\ stack[Len(stack)].kind # "teardown"
    /\ drop_guard
    /\ UNCHANGED <<api, nextAddr, hostObjs, objInstance, objBinding, calls, ret,
                   lastOp, fatal, stale, vvars, pvars, cvars>>

----------------------------------------------------------------------------
Init ==
    /\ api \in ApiVersions
    /\ nextAddr = 1
    /\ hostObjs = {}
    /\ objInstance = << >>
    /\ objBinding = << >>
    /\ storage = << >>
    /\ calls = << >>
    /\ ret = 0
    /\ lastOp = "none"
    /\ stack = << >>
    /\ fatal = NoFatal
    /\ stale = {}
    /\ base = "Node"
    /\ items = << >>
    /\ feat = FALSE
    /\ gv = NoQuery
    /\ dgv = NoQuery
    /\ delivered = << >>
    /\ nDelivered = 0
    /\ hookRuns = 0
    /\ bodyRuns = 0
    /\ nprops = 0
    /\ lists = << >>
    /\ out = NoOut
    /\ listLen = usize(0, 0)
    /\ countField = NoCount
    /\ plugin = NoPlugin
    /\ refLog = << >>

Next ==
    \/ create
    \/ \E o \in 1..MaxAddr : recreate(o)
    \/ \E i \in 1..MaxAddr : free(i)
    \/ free_return
    \/ \E i \in 1..MaxAddr : to_string(i)
    \/ \E i \in 1..MaxAddr : on_notification(i)
    \/ \E i \in 1..MaxAddr : get_property(i)
    \/ \E i \in 1..MaxAddr : set_property(i)
    \/ \E i \in 1..MaxAddr : get_property_list(i)
    \/ \E i \in 1..MaxAddr : property_can_revert(i)
    \/ \E i \in 1..MaxAddr : property_get_revert(i)
    \/ callback_return

Spec == Init /\ [][Next]_vars

----------------------------------------------------------------------------
\* Code generated for `#[godot_api] impl IBase for MyType` (VSpec).

\* Base classes the impl may name, the methods an impl body may hold, and the
\* cfg attribute a method may carry.
BaseClasses ==
    {"Node", "Node2D", "Image", "Object", "MainLoop", "RefCounted", "Resource",
     "ResourceLoader", "ResourceSaver", "SceneTree", "Script", "ScriptExtension"}
ItemNames == {"ready", "process"}
CfgAttrs == {"none", "feature", "not_feature"}
Item(name, cfg) == [name |-> name, cfg |-> cfg]

\* Virtual methods of the generated trait IBase, by base class.
TraitVirtuals(b) ==
    IF b \in {"Node", "Node2D"} THEN {"ready", "process"}
    ELSE IF b \in {"MainLoop", "SceneTree"} THEN {"process"}
    ELSE {}

\* known_virtual_hashes::<class>::<method>: the hash depends on the method's
\* signature, a class inherits the hash of the class declaring the method.
known_virtual_hashes(class, method) ==
    IF method = "ready" THEN 1 ELSE IF method = "process" THEN 2 ELSE 3

\* Whether the cfg attributes of an item keep it in this build.
CfgHolds(cfg) ==
    \/ cfg = "none"
    \/ cfg = "feature" /\ feat
    \/ cfg = "not_feature" /\ ~feat

\* The names matched before the catch-all arm of the loop over body items.
SpecialNames ==
    {"register_class", "init", "to_string", "on_notification", "get_property",
     "set_property", "get_property_list", "property_get_revert"}

\* Godot-facing name of an overridden virtual method.
virtual_method_name(method_name_str) ==
    IF method_name_str = "init_ext" THEN "_init" ELSE "_" \o method_name_str

\* A before_kind that never asks for the before-hook.
before_kind_never(method_name_str) ==
    "Without"

before_kind(method_name_str) ==
    IF method_name_str = "ready" THEN "WithBefore" ELSE "Without"

OverriddenVirtualFn(cfg_attrs, method_name, hash_class, rust_name, kind) ==
    [cfg_attrs |-> cfg_attrs, method_name |-> method_name,
     hash_constant |-> <<hash_class, rust_name>>,
     signature_info |-> rust_name, before_kind |-> kind]

\* An is_possibly_node_class that lost its negation.
is_possibly_node_class_inverted(trait_base_class) ==
    trait_base_class \in
        {"Object", "MainLoop", "RefCounted", "Resource", "ResourceLoader",
         "ResourceSaver", "SceneTree", "Script", "ScriptExtension"}

is_possibly_node_class(trait_base_class) ==
    trait_base_class \notin
        {"Object", "MainLoop", "RefCounted", "Resource", "ResourceLoader",
         "ResourceSaver", "SceneTree", "Script", "ScriptExtension"}

\* overridden_virtuals after the loop over the body items: one entry per
\* method that is none of the special names, in source order.
RECURSIVE pushed_virtuals(_, _)
pushed_virtuals(b, its) ==
    IF its = << >> THEN << >>
    ELSE LET it == Head(its) IN
         (IF it.name \in SpecialNames THEN << >>
          ELSE << OverriddenVirtualFn(it.cfg, virtual_method_name(it.name), b,
                                      it.name, before_kind(it.name)) >>)
         \o pushed_virtuals(b, Tail(its))

\* The synthetic _ready entry pushed without looking at the entries at hand.
overridden_virtuals_always_synthetic(b, its) ==
    LET pushed == pushed_virtuals(b, its) IN
    IF is_possibly_node_class(b)
    THEN Append(pushed,
                OverriddenVirtualFn("none", "_ready", "Node", "ready", "OnlyBefore"))
    ELSE pushed

\* overridden_virtuals as handed to make_match_arm: the synthetic _ready entry
\* is pushed when the base may be a Node and no entry is named _ready.
overridden_virtuals(b, its) ==
    LET pushed == pushed_virtuals(b, its) IN
    IF /\ is_possibly_node_class(b)
       /\ ~\E k \in 1..Len(pushed) : pushed[k].method_name = "_ready"
    THEN Append(pushed,
                OverriddenVirtualFn("none", "_ready", "Node", "ready", "OnlyBefore"))
    ELSE pushed

\* A match arm whose pattern is the name alone on every API version.
make_match_arm_matches_name_only(v, name, hash) ==
    name = v.method_name

\* Match arms that decide arm by arm: the synthetic entry by name alone, the
\* user's entries by (name, hash).
make_match_arm_matches_mixed(v, name, hash) ==
    IF since_api(44) /\ v.before_kind # "OnlyBefore"
    THEN name = v.method_name
         /\ hash = known_virtual_hashes(v.hash_constant[1], v.hash_constant[2])
    ELSE name = v.method_name

\* The pattern of a match arm: (name, hash) since 4.4, the name alone before.
make_match_arm_matches(v, name, hash) ==
    IF since_api(44)
    THEN name = v.method_name
         /\ hash = known_virtual_hashes(v.hash_constant[1], v.hash_constant[2])
    ELSE name = v.method_name

\* The generated __virtual_call: the first arm left by cfg whose pattern
\* matches, `_ => None` otherwise. The class is taken to be active: the early
\* return of #tool_check (util::make_virtual_tool_check) is left out.
RECURSIVE first_match(_, _, _)
first_match(arms, name, hash) ==
    IF arms = << >> THEN None
    ELSE IF CfgHolds(Head(arms).cfg_attrs) /\ make_match_arm_matches(Head(arms), name, hash)
    THEN Some(Head(arms).before_kind, Head(arms).signature_info)
    ELSE first_match(Tail(arms), name, hash)

virtual_call(name, hash) ==
    first_match(overridden_virtuals(base, items), name, hash)

\* What a thunk runs when the host invokes it (make_virtual_callback).
ThunkRuns(thunk) ==
    IF thunk.kind = "WithBefore" THEN << "__before_ready", thunk.method >>
    ELSE IF thunk.kind = "OnlyBefore" THEN << "__before_ready" >>
    ELSE IF thunk.kind = "Builtin" THEN << >>
    ELSE << thunk.method >>

Count(seq, x) == Cardinality({k \in 1..Len(seq) : seq[k] = x})

\* The names and hashes the host may ask for; before 4.4 there is no hash
\* parameter (written 0).
QueryNames == {"_ready", "_process", "_init", "_input"}
QueryHashes == IF since_api(44) THEN {1, 2, 3} ELSE {0}

\* The host asks for a virtual method.
get_virtual(name, hash) ==
    /\ gv' = [name |-> name, hash |-> hash, result |-> virtual_call(name, hash)]
    /\ UNCHANGED <<api, lvars, pvars, cvars, base, items, feat, dgv, delivered, nDelivered,
                   hookRuns, bodyRuns>>

\* T::__default_virtual_call: the built-in thunk that does nothing, whatever
\* the class overrides.
default_virtual_call(name, hash) == Some("Builtin", "")

\* default_get_virtual handing the query to the table of the overrides.
default_get_virtual_via_virtual_call(name, hash) ==
    /\ dgv' = [name |-> name, hash |-> hash, result |-> virtual_call(name, hash)]
    /\ UNCHANGED <<api, lvars, pvars, cvars, base, items, feat, gv, delivered, nDelivered,
                   hookRuns, bodyRuns>>

\* The host asks for the default of a virtual method; the parameters are
\* those of get_virtual, under the same cfg.
default_get_virtual(name, hash) ==
    /\ dgv' = [name |-> name, hash |-> hash,
               result |-> default_virtual_call(name, hash)]
    /\ UNCHANGED <<api, lvars, pvars, cvars, base, items, feat, gv, delivered, nDelivered,
                   hookRuns, bodyRuns>>

\* The host delivers ready to an instance: it invokes the thunk that
\* get_virtual("_ready") resolves to, if any.
ready_delivery(hash) ==
    LET thunk == virtual_call("_ready", hash) IN
    /\ nDelivered < MaxDeliveries
    /\ thunk # None
    /\ delivered' = ThunkRuns(thunk)
    /\ nDelivered' = nDelivered + 1
    /\ hookRuns' = hookRuns + Count(ThunkRuns(thunk), "__before_ready")
    /\ bodyRuns' = bodyRuns + Count(ThunkRuns(thunk), "ready")
    /\ UNCHANGED <<api, lvars, pvars, cvars, base, items, feat, gv, dgv>>

RECURSIVE SeqsUpTo(_, _)
SeqsUpTo(S, n) ==
    IF n = 0 THEN {<< >>}
    ELSE LET shorter == SeqsUpTo(S, n - 1) IN
         shorter \cup {Append(q, x) : q \in shorter, x \in S}

\* The impl compiles in this build: no method is defined twice, and every
\* method left by cfg is a method of the trait.
Compiles(b, its) ==
    /\ \A j \in 1..Len(its) : \A k \in 1..Len(its) :
           (j # k /\ its[j].name = its[k].name)
               => ~(CfgHolds(its[j].cfg) /\ CfgHolds(its[k].cfg))
    /\ \A k \in 1..Len(its) :
           CfgHolds(its[k].cfg) => its[k].name \in TraitVirtuals(b) \cup SpecialNames

VInit ==
    /\ api \in ApiVersions
    /\ feat \in BOOLEAN
    /\ base \in BaseClasses
    /\ items \in SeqsUpTo({Item(n, c) : n \in ItemNames, c \in CfgAttrs}, MaxItems)
    /\ Compiles(base, items)
    /\ nextAddr = 1
    /\ hostObjs = {}
    /\ objInstance = << >>
    /\ objBinding = << >>
    /\ storage = << >>
    /\ calls = << >>
    /\ ret = 0
    /\ lastOp = "none"
    /\ stack = << >>
    /\ fatal = NoFatal
    /\ stale = {}
    /\ gv = NoQuery
    /\ dgv = NoQuery
    /\ delivered = << >>
    /\ nDelivered = 0
    /\ hookRuns = 0
    /\ bodyRuns = 0
    /\ nprops = 0
    /\ lists = << >>
    /\ out = NoOut
    /\ listLen = usize(0, 0)
    /\ countField = NoCount
    /\ plugin = NoPlugin
    /\ refLog = << >>

VNext ==
    \/ \E n \in QueryNames : \E h \in QueryHashes : get_virtual(n, h)
    \/ \E h \in QueryHashes : ready_delivery(h)

VSpec == VInit /\ [][VNext]_vars

\* The same expansion, queried through default_get_virtual (DSpec).
DNext ==
    \E n \in QueryNames : \E h \in QueryHashes : default_get_virtual(n, h)

DSpec == VInit /\ [][DNext]_vars

----------------------------------------------------------------------------
\* reference / unreference (RSpec): one instance, handed to the host with an
\* external reference count of c.

\* The base classes that are reference-counted.
RefCountedBases == {"RefCounted", "Resource", "Image"}

\* StorageRefCounted::on_inc_ref / on_dec_ref: the external count of a
\* reference-counted base goes up / down by one, no-ops otherwise.
on_inc_ref(i) ==
    IF base \in RefCountedBases THEN [storage EXCEPT ![i].refs = @ + 1] ELSE storage

on_dec_ref(i) ==
    IF base \in RefCountedBases THEN [storage EXCEPT ![i].refs = @ - 1] ELSE storage

reference(instance) ==
    /\ Running
    /\ instance \in DOMAIN refLog
    /\ Live(instance)
    /\ refLog[instance].inc < MaxRefCalls
    /\ storage' = on_inc_ref(instance)
    /\ refLog' = [refLog EXCEPT ![instance].inc = @ + 1]
    /\ UNCHANGED <<api, nextAddr, hostObjs, objInstance, objBinding, calls, ret,
                   lastOp, stack, fatal, stale, vvars, cvars, nprops, lists, out>>

\* An unreference that forwards to on_inc_ref.
unreference_inc(instance) ==
    /\ Running
    /\ instance \in DOMAIN refLog
    /\ Live(instance)
    /\ refLog[instance].dec < MaxRefCalls
    /\ base \in RefCountedBases => storage[instance].refs > 0
    /\ storage' = on_inc_ref(instance)
    /\ refLog' = [refLog EXCEPT ![instance].dec = @ + 1]
    /\ UNCHANGED <<api, nextAddr, hostObjs, objInstance, objBinding, calls, ret,
                   lastOp, stack, fatal, stale, vvars, cvars, nprops, lists, out>>

\* The host gives up a reference it holds: the count is above zero.
unreference(instance) ==
    /\ Running
    /\ instance \in DOMAIN refLog
    /\ Live(instance)
    /\ refLog[instance].dec < MaxRefCalls
    /\ base \in RefCountedBases => storage[instance].refs > 0
    /\ storage' = on_dec_ref(instance)
    /\ refLog' = [refLog EXCEPT ![instance].dec = @ + 1]
    /\ UNCHANGED <<api, nextAddr, hostObjs, objInstance, objBinding, calls, ret,
                   lastOp, stack, fatal, stale, vvars, cvars, nprops, lists, out>>

\* The state after create of one instance (object 1, record 2) whose
\* external count stands at c.
RInit ==
    /\ api \in ApiVersions
    /\ base \in BaseClasses
    /\ nprops = 0
    /\ \E c \in (IF base \in RefCountedBases THEN 0..MaxCount ELSE {0}) :
           /\ storage = (2 :> [InstanceStorage_construct(1) EXCEPT !.refs = c])
           /\ refLog = (2 :> [start |-> c, inc |-> 0, dec |-> 0])
    /\ nextAddr = 3
    /\ hostObjs = {1}
    /\ objInstance = (1 :> 2)
    /\ objBinding = (1 :> 2)
    /\ calls = << Call("classdb_construct_object", 1, 0),
                  Call("make_user_instance", 1, 0),
                  Call("InstanceStorage::construct", 1, 2),
                  Call("object_set_instance", 1, 2),
                  Call("object_set_instance_binding", 1, 2) >>
    /\ ret = 1
    /\ lastOp = "create"
    /\ stack = << >>
    /\ fatal = NoFatal
    /\ stale = {}
    /\ items = << >>
    /\ feat = FALSE
    /\ gv = NoQuery
    /\ dgv = NoQuery
    /\ delivered = << >>
    /\ nDelivered = 0
    /\ hookRuns = 0
    /\ bodyRuns = 0
    /\ lists = << >>
    /\ out = NoOut
    /\ listLen = usize(0, 0)
    /\ countField = NoCount
    /\ plugin = NoPlugin

RNext ==
    \/ \E i \in 1..MaxAddr : reference(i)
    \/ \E i \in 1..MaxAddr : unreference(i)

RSpec == RInit /\ [][RNext]_vars

----------------------------------------------------------------------------
\* Property bridge (PSpec): each callback from its call to its return, called
\* by the host on a live instance outside any other callback.

\* Values a property may take; names are numbers, 1..nprops are the dynamic
\* properties the user's class declares, every other name is unknown to it.
Values == {10, 42}
PropertyNames == 0..MaxProps

\* The user's class behind T::__godot_get_property, __godot_set_property,
\* __godot_get_property_list and __godot_property_get_revert: it exposes its
\* declared properties, and the odd ones have a declared default of 10.
godot_get_property(user, property) ==
    IF property \in DOMAIN user THEN SomeV(user[property]) ELSE NoneV

godot_set_property(user, property, value) ==
    IF property \in DOMAIN user
    THEN [applied |-> TRUE, user |-> [user EXCEPT ![property] = value]]
    ELSE [applied |-> FALSE, user |-> user]

godot_get_property_list(user) == [k \in 1..nprops |-> k]

godot_property_get_revert(user, property) ==
    IF property \in DOMAIN user /\ property % 2 = 1 THEN SomeV(10) ELSE NoneV

\* as_storage(instance) and storage.get() / get_mut() succeed; the guard is
\* dropped at the return.
Borrows(instance, kind) ==
    /\ Running
    /\ stack = << >>
    /\ instance \in Instances
    /\ storage[instance].lifecycle = "Created"
    /\ BorrowOutcome(instance, kind) = "ok"

Out(ep, instance, property, ret_bool, slot) ==
    [ep |-> ep, inst |-> instance, name |-> property, ret |-> ret_bool,
     slot |-> slot, list |-> 0, count |-> 0]

\* A get_property that reports every property as found, writing the default
\* value when the user's code has none.
get_property_ret_always_found(instance, property) ==
    LET value == godot_get_property(storage[instance].user, property) IN
    /\ Borrows(instance, "shared")
    /\ out' = Out("get_property", instance, property, TRUE, Written(value.value))
    /\ UNCHANGED <<api, lvars, vvars, cvars, nprops, lists, refLog>>

get_property_ret(instance, property) ==
    LET value == godot_get_property(storage[instance].user, property) IN
    /\ Borrows(instance, "shared")
    /\ out' = IF value.some
              THEN Out("get_property", instance, property, TRUE, Written(value.value))
              ELSE Out("get_property", instance, property, FALSE, Unwritten)
    /\ UNCHANGED <<api, lvars, vvars, cvars, nprops, lists, refLog>>

\* A set_property that reports success whatever the user's setter returned.
set_property_ret_always_true(instance, property, value) ==
    LET set == godot_set_property(storage[instance].user, property, value) IN
    /\ Borrows(instance, "exclusive")
    /\ storage' = [storage EXCEPT ![instance].user = set.user]
    /\ out' = Out("set_property", instance, property, TRUE, Unwritten)
    /\ UNCHANGED <<api, nextAddr, hostObjs, objInstance, objBinding, calls, ret,
                   lastOp, stack, fatal, stale, vvars, cvars, nprops, lists, refLog>>

set_property_ret(instance, property, value) ==
    LET set == godot_set_property(storage[instance].user, property, value) IN
    /\ Borrows(instance, "exclusive")
    /\ storage' = [storage EXCEPT ![instance].user = set.user]
    /\ out' = Out("set_property", instance, property, set.applied, Unwritten)
    /\ UNCHANGED <<api, nextAddr, hostObjs, objInstance, objBinding, calls, ret,
                   lastOp, stack, fatal, stale, vvars, cvars, nprops, lists, refLog>>

\* PropertyInfo::into_owned_property_sys for each property, collected into a
\* boxed slice that is leaked to the host; the record of the array holds how
\* often the array and each owned sub-structure were reclaimed. The lengths
\* of the model fit the u32 count, so try_into() succeeds.
PropertyList(instance, property_list) ==
    [inst |-> instance, props |-> property_list,
     count |-> Len(property_list),
     arrayFrees |-> 0, ownedFrees |-> [k \in 1..Len(property_list) |-> 0]]

\* A get_property_list that keeps one buffer per instance: it reclaims the
\* arrays it handed out for the instance before and builds the new one.
get_property_list_ret_reusing(instance) ==
    LET list == Cardinality(DOMAIN lists) + 1
        property_list == godot_get_property_list(storage[instance].user)
        reclaimed == [l \in DOMAIN lists |->
                         IF lists[l].inst = instance /\ lists[l].arrayFrees = 0
                         THEN [lists[l] EXCEPT
                                  !.arrayFrees = 1,
                                  !.ownedFrees = [k \in DOMAIN @ |-> 1]]
                         ELSE lists[l]] IN
    /\ since_api(43)
    /\ Borrows(instance, "exclusive")
    /\ list <= MaxLists
    /\ lists' = (list :> PropertyList(instance, property_list)) @@ reclaimed
    /\ out' = [ep |-> "get_property_list", inst |-> instance, name |-> 0,
               ret |-> TRUE, slot |-> Unwritten, list |-> list,
               count |-> Len(property_list)]
    /\ UNCHANGED <<api, lvars, vvars, cvars, nprops, refLog>>

get_property_list_ret(instance) ==
    LET list == Cardinality(DOMAIN lists) + 1
        property_list == godot_get_property_list(storage[instance].user) IN
    /\ since_api(43)
    /\ Borrows(instance, "exclusive")
    /\ list <= MaxLists
    /\ lists' = (list :> PropertyList(instance, property_list)) @@ lists
    /\ out' = [ep |-> "get_property_list", inst |-> instance, name |-> 0,
               ret |-> TRUE, slot |-> Unwritten, list |-> list,
               count |-> Len(property_list)]
    /\ UNCHANGED <<api, lvars, vvars, cvars, nprops, refLog>>

\* A free_property_list that reclaims the array and skips the loop over its
\* elements.
free_property_list_array_only(list, count) ==
    /\ Running
    /\ stack = << >>
    /\ since_api(43)
    /\ list \in DOMAIN lists
    /\ lists[list].arrayFrees = 0
    /\ count = lists[list].count
    /\ lists' = [lists EXCEPT ![list].arrayFrees = @ + 1]
    /\ out' = [ep |-> "free_property_list", inst |-> 0, name |-> 0, ret |-> TRUE,
               slot |-> Unwritten, list |-> list, count |-> count]
    /\ UNCHANGED <<api, lvars, vvars, cvars, nprops, refLog>>

\* The host returns an array, with the pointer and the count it was given;
\* Box::from_raw reclaims the array, free_owned_property_sys each of the
\* first `count` elements.
free_property_list(list, count) ==
    /\ Running
    /\ stack = << >>
    /\ since_api(43)
    /\ list \in DOMAIN lists
    /\ lists[list].arrayFrees = 0
    /\ count = lists[list].count
    /\ lists' = [lists EXCEPT
                     ![list].arrayFrees = @ + 1,
                     ![list].ownedFrees =
                         [k \in DOMAIN @ |-> IF k <= count THEN @[k] + 1 ELSE @[k]]]
    /\ out' = [ep |-> "free_property_list", inst |-> 0, name |-> 0, ret |-> TRUE,
               slot |-> Unwritten, list |-> list, count |-> count]
    /\ UNCHANGED <<api, lvars, vvars, cvars, nprops, refLog>>

\* raw_property_get_revert: the user's revert value under a shared borrow.
raw_property_get_revert_ret(instance, property) ==
    godot_property_get_revert(storage[instance].user, property)

\* A property_can_revert that does not look at the revert value.
property_can_revert_ret_always(instance, property) ==
    LET revert == raw_property_get_revert_ret(instance, property) IN
    /\ Borrows(instance, "shared")
    /\ out' = Out("property_can_revert", instance, property, TRUE, Unwritten)
    /\ UNCHANGED <<api, lvars, vvars, cvars, nprops, lists, refLog>>

property_can_revert_ret(instance, property) ==
    LET revert == raw_property_get_revert_ret(instance, property) IN
    /\ Borrows(instance, "shared")
    /\ out' = Out("property_can_revert", instance, property, revert.some, Unwritten)
    /\ UNCHANGED <<api, lvars, vvars, cvars, nprops, lists, refLog>>

property_get_revert_ret(instance, property) ==
    LET revert == raw_property_get_revert_ret(instance, property) IN
    /\ Borrows(instance, "shared")
    /\ out' = IF revert.some
              THEN Out("property_get_revert", instance, property, TRUE,
                       Written(revert.value))
              ELSE Out("property_get_revert", instance, property, FALSE, Unwritten)
    /\ UNCHANGED <<api, lvars, vvars, cvars, nprops, lists, refLog>>

PInit ==
    /\ api \in ApiVersions
    /\ nprops \in 0..MaxProps
    /\ nextAddr = 1
    /\ hostObjs = {}
    /\ objInstance = << >>
    /\ objBinding = << >>
    /\ storage = << >>
    /\ calls = << >>
    /\ ret = 0
    /\ lastOp = "none"
    /\ stack = << >>
    /\ fatal = NoFatal
    /\ stale = {}
    /\ base = "Node"
    /\ items = << >>
    /\ feat = FALSE
    /\ gv = NoQuery
    /\ dgv = NoQuery
    /\ delivered = << >>
    /\ nDelivered = 0
    /\ hookRuns = 0
    /\ bodyRuns = 0
    /\ lists = << >>
    /\ out = NoOut
    /\ listLen = usize(0, 0)
    /\ countField = NoCount
    /\ plugin = NoPlugin
    /\ refLog = << >>

PNext ==
    \/ (Instances = {} /\ create)
    \/ \E i \in 1..MaxAddr : free(i)
    \/ free_return
    \/ \E i \in 1..MaxAddr : \E n \in PropertyNames : get_property_ret(i, n)
    \/ \E i \in 1..MaxAddr : \E n \in PropertyNames : \E v \in Values :
           set_property_ret(i, n, v)
    \/ \E i \in 1..MaxAddr : get_property_list_ret(i)
    \/ \E l \in 1..MaxLists : \E c \in 0..MaxProps : free_property_list(l, c)
    \/ \E i \in 1..MaxAddr : \E n \in PropertyNames : property_can_revert_ret(i, n)
    \/ \E i \in 1..MaxAddr : \E n \in PropertyNames : property_get_revert_ret(i, n)

PSpec == PInit /\ [][PNext]_vars

----------------------------------------------------------------------------
\* The count of get_property_list (CSpec): one instance whose user code
\* returns a list of listLen properties, lengths around u32::MAX included.

\* The lengths tried, as limbs: 0, 1, ... up to and beyond 2^32 - 1.
Lengths ==
    {usize(hi, lo) : hi \in {0, 1, 2, Limb - 2, Limb - 1, Limb, Limb + 1},
                     lo \in {0, 1, Limb - 2, Limb - 1}}

\* A conversion that keeps the low 32 bits (`len as u32`).
u32_truncating(len) == [ok |-> TRUE, value |-> usize(len.hi % Limb, len.lo)]

\* usize -> u32 by try_into(): the value when it is at most u32::MAX, an
\* error otherwise.
u32_try_from(len) ==
    IF len.hi < Limb THEN [ok |-> TRUE, value |-> len]
    ELSE [ok |-> FALSE, value |-> usize(0, 0)]

\* get_property_list, seen through its count: the boxed slice has one
\* element per property of the user's list; expect() panics on an error of
\* the conversion, before *count is written.
get_property_list_count(instance) ==
    LET property_list_sys_len == listLen
        converted == u32_try_from(property_list_sys_len) IN
    /\ since_api(43)
    /\ Borrows(instance, "exclusive")
    /\ IF converted.ok
       THEN /\ countField' = [written |-> TRUE, value |-> converted.value,
                              array |-> property_list_sys_len]
            /\ UNCHANGED fatal
       ELSE /\ fatal' = Fatal("get_property_list", instance, "count_overflow")
            /\ UNCHANGED countField
    /\ UNCHANGED <<api, nextAddr, hostObjs, objInstance, objBinding, storage,
                   calls, ret, lastOp, stack, stale, vvars, pvars, listLen, plugin>>

\* The state after create of one instance (object 1, record 2).
CInit ==
    /\ api \in ApiVersions
    /\ listLen \in Lengths
    /\ countField = NoCount
    /\ plugin = NoPlugin
    /\ nprops = 0
    /\ storage = (2 :> InstanceStorage_construct(1))
    /\ nextAddr = 3
    /\ hostObjs = {1}
    /\ objInstance = (1 :> 2)
    /\ objBinding = (1 :> 2)
    /\ calls = << Call("classdb_construct_object", 1, 0),
                  Call("make_user_instance", 1, 0),
                  Call("InstanceStorage::construct", 1, 2),
                  Call("object_set_instance", 1, 2),
                  Call("object_set_instance_binding", 1, 2) >>
    /\ ret = 1
    /\ lastOp = "create"
    /\ stack = << >>
    /\ fatal = NoFatal
    /\ stale = {}
    /\ base = "Node"
    /\ items = << >>
    /\ feat = FALSE
    /\ gv = NoQuery
    /\ dgv = NoQuery
    /\ delivered = << >>
    /\ nDelivered = 0
    /\ hookRuns = 0
    /\ bodyRuns = 0
    /\ lists = << >>
    /\ out = NoOut
    /\ refLog = << >>

CNext == \E i \in 1..MaxAddr : get_property_list_count(i)

CSpec == CInit /\ [][CNext]_vars

----------------------------------------------------------------------------
\* The descriptor generated for an impl block (GSpec): impl bodies made of
\* the specially handled methods, each under one cfg attribute.

\* The positions of the body items named `name`.
ItemsNamed(its, name) == {k \in 1..Len(its) : its[k].name = name}

\* A field whose match arms are appended item by item (`#create_fn` is
\* repeated inside the new quote): Some(..) when an arm is left by cfg.
appended_fn(its, name) ==
    \E k \in ItemsNamed(its, name) : CfgHolds(its[k].cfg)

\* A field that is assigned anew by each item of the name: its single arm
\* carries the cfg attributes of the last such item.
assigned_fn(its, name) ==
    /\ ItemsNamed(its, name) # {}
    /\ \E k \in ItemsNamed(its, name) :
           /\ \A j \in ItemsNamed(its, name) : j <= k
           /\ CfgHolds(its[k].cfg)

\* The descriptor with recreate filled in on every API level.
ITraitImpl_recreate_always(its) ==
    [added |-> TRUE,
     user_register_fn |-> appended_fn(its, "register_class"),
     user_create_fn |-> appended_fn(its, "init"),
     user_recreate_fn |-> appended_fn(its, "init"),
     user_to_string_fn |-> appended_fn(its, "to_string"),
     user_on_notification_fn |-> appended_fn(its, "on_notification"),
     user_set_fn |-> assigned_fn(its, "set_property"),
     user_get_fn |-> assigned_fn(its, "get_property"),
     user_get_property_list_fn |->
         since_api(43) /\ assigned_fn(its, "get_property_list"),
     user_free_property_list_fn |->
         since_api(43) /\ assigned_fn(its, "get_property_list"),
     user_property_get_revert_fn |-> assigned_fn(its, "property_get_revert"),
     user_property_can_revert_fn |-> assigned_fn(its, "property_get_revert"),
     get_virtual_fn |-> TRUE]

\* PluginItem::ITraitImpl as generated: each field after
\* convert_to_match_expression_or_none and cfg.
ITraitImpl(its) ==
    [added |-> TRUE,
     user_register_fn |-> appended_fn(its, "register_class"),
     user_create_fn |-> appended_fn(its, "init"),
     user_recreate_fn |-> since_api(42) /\ appended_fn(its, "init"),
     user_to_string_fn |-> appended_fn(its, "to_string"),
     user_on_notification_fn |-> appended_fn(its, "on_notification"),
     user_set_fn |-> assigned_fn(its, "set_property"),
     user_get_fn |-> assigned_fn(its, "get_property"),
     user_get_property_list_fn |->
         since_api(43) /\ assigned_fn(its, "get_property_list"),
     user_free_property_list_fn |->
         since_api(43) /\ assigned_fn(its, "get_property_list"),
     user_property_get_revert_fn |-> assigned_fn(its, "property_get_revert"),
     user_property_can_revert_fn |-> assigned_fn(its, "property_get_revert"),
     get_virtual_fn |-> TRUE]

\* plugin_add!: the descriptor of the class enters the registry.
plugin_add ==
    /\ ~plugin.added
    /\ plugin' = ITraitImpl(items)
    /\ UNCHANGED <<api, lvars, vvars, pvars, listLen, countField>>

\* The impl blocks that compile: those of Compiles, and before 4.3 none
\* with a get_property_list left by cfg (it is no method of the trait and
\* the macro emits compile_error!).
GInit ==
    /\ api \in ApiVersions
    /\ feat \in BOOLEAN
    /\ base \in {"Node", "RefCounted"}
    /\ items \in SeqsUpTo({Item(n, c) : n \in SpecialNames, c \in CfgAttrs}, MaxItems)
    /\ Compiles(base, items)
    /\ before_api(43) => ~appended_fn(items, "get_property_list")
    /\ plugin = NoPlugin
    /\ nextAddr = 1
    /\ hostObjs = {}
    /\ objInstance = << >>
    /\ objBinding = << >>
    /\ storage = << >>
    /\ calls = << >>
    /\ ret = 0
    /\ lastOp = "none"
    /\ stack = << >>
    /\ fatal = NoFatal
    /\ stale = {}
    /\ gv = NoQuery
    /\ dgv = NoQuery
    /\ delivered = << >>
    /\ nDelivered = 0
    /\ hookRuns = 0
    /\ bodyRuns = 0
    /\ nprops = 0
    /\ lists = << >>
    /\ out = NoOut
    /\ refLog = << >>
    /\ listLen = usize(0, 0)
    /\ countField = NoCount

GNext == plugin_add

GSpec == GInit /\ [][GNext]_vars

----------------------------------------------------------------------------
\* The borrowing callbacks of one instance with their returns on record
\* (BSpec): the callbacks of Spec, `out` holding the callback that returned
\* last.

callback_return_seen ==
    /\ Running
    /\ stack # << >>
    /\ stack[Len(stack)].kind # "teardown"
    /\ drop_guard
    /\ out' = Out(stack[Len(stack)].ep, stack[Len(stack)].inst, 0, TRUE, Unwritten)
    /\ UNCHANGED <<api, nextAddr, hostObjs, objInstance, objBinding, calls, ret,
                   lastOp, fatal, stale, vvars, cvars, nprops, lists, refLog>>

BNext ==
    \/ (Instances = {} /\ create)
    \/ \E i \in 1..MaxAddr : free(i)
    \/ free_return
    \/ \E i \in 1..MaxAddr : to_string(i)
    \/ \E i \in 1..MaxAddr : on_notification(i)
    \/ \E i \in 1..MaxAddr : get_property(i)
    \/ \E i \in 1..MaxAddr : set_property(i)
    \/ \E i \in 1..MaxAddr : get_property_list(i)
    \/ \E i \in 1..MaxAddr : property_can_revert(i)
    \/ \E i \in 1..MaxAddr : property_get_revert(i)
    \/ callback_return_seen

BSpec == Init /\ [][BNext]_vars

----------------------------------------------------------------------------
\* Properties of the callbacks (checked under Spec).

TeardownOf(i) ==
    \E k \in 1..Len(stack) : stack[k].kind = "teardown" /\ stack[k].inst = i

FreeReturned(i) == storage[i].frees >= 1 /\ ~TeardownOf(i)

\* C1: while free(i) is between its start and the record reaching Freed, the
\* record is already MarkedDestroyed and no borrow of i, shared or exclusive,
\* is held: none can begin once free has started.
C1_NoBorrowBeginsDuringFree ==
    \A i \in Instances :
        TeardownOf(i) =>
            /\ storage[i].lifecycle = "MarkedDestroyed"
            /\ ~Borrowed(i)
            /\ \A k \in 1..Len(stack) : stack[k].inst = i => stack[k].kind = "teardown"

\* A borrow was attempted during the teardown of its instance and was refused.
C1_Witness ==
    /\ fatal.cause = "destroyed"
    /\ TeardownOf(fatal.inst)
    /\ storage[fatal.inst].lifecycle = "MarkedDestroyed"

\* C2: once create then free has left the record Freed, every borrowing entry
\* point called on that handle ends as a detected fatal contract violation;
\* none goes through on the freed instance.
C2_BorrowAfterFreeIsDetected ==
    \A i \in Instances :
        /\ (storage[i].frees = 1 /\ FreeReturned(i)) => storage[i].lifecycle = "Freed"
        /\ storage[i].lifecycle = "Freed" => i \notin stale

CreateCalls(b, p) ==
    << Call("classdb_construct_object", b, 0),
       Call("make_user_instance", b, 0),
       Call("InstanceStorage::construct", b, p),
       Call("object_set_instance", b, p),
       Call("object_set_instance_binding", b, p) >>

\* C3: every create runs the factory once, builds one new record and issues
\* object_set_instance then object_set_instance_binding, once each, with the
\* same host handle and the same instance pointer, before it returns.
C3_CreateLinksTwice ==
    lastOp = "create" =>
        \E b \in hostObjs : \E p \in Instances :
            /\ calls = CreateCalls(b, p)
            /\ storage[p].base = b
            /\ objInstance[b] = p
            /\ objBinding[b] = p

C3_Witness ==
    /\ lastOp = "create"
    /\ Len(calls) = Len(CreateCalls(0, 0))
    /\ calls[Len(calls)].fn = "object_set_instance_binding"

\* C4 as stated: create returns the instance pointer it passed to
\* object_set_instance and object_set_instance_binding.
C4_CreateReturnsInstancePtr ==
    lastOp = "create" =>
        \E k \in 1..Len(calls) :
            calls[k].fn = "object_set_instance" /\ ret = calls[k].inst

\* C4, amended: create returns the host object handle obtained from
\* classdb_construct_object, the handle both linking calls were given; the
\* instance pointer of the new record is a different pointer and is not
\* returned.
C4_CreateReturnsObjectPtr ==
    lastOp = "create" =>
        /\ ret \in hostObjs
        /\ ret \notin Instances
        /\ \A k \in 1..Len(calls) :
               /\ calls[k].fn = "classdb_construct_object" => ret = calls[k].obj
               /\ calls[k].fn \in {"object_set_instance", "object_set_instance_binding"}
                      => ret = calls[k].obj /\ ret # calls[k].inst

C4_Witness ==
    /\ lastOp = "create"
    /\ ret \in hostObjs
    /\ objInstance[ret] \in Instances
    /\ objInstance[ret] # ret

RecreateCalls(o, p) ==
    << Call("make_user_instance", o, 0),
       Call("InstanceStorage::construct", o, p),
       Call("object_set_instance", o, p),
       Call("object_set_instance_binding", o, p) >>

\* C5: a recreate step leaves the set of host objects unchanged and makes no
\* classdb_construct_object call; it builds one fresh record with the
\* factory, links it to the existing host handle by both linking calls and
\* returns the pointer of the new record.
C5_RecreateKeepsHostObject ==
    [][ (lastOp' = "recreate" /\ nextAddr' # nextAddr) =>
            /\ hostObjs' = hostObjs
            /\ ret' \notin Instances
            /\ ret' \in DOMAIN storage'
            /\ storage'[ret'].lifecycle = "Created"
            /\ \E o \in hostObjs :
                   /\ calls' = RecreateCalls(o, ret')
                   /\ storage'[ret'].base = o
                   /\ objInstance'[o] = ret'
                   /\ objBinding'[o] = ret' ]_vars

C5_Witness ==
    /\ lastOp = "recreate"
    /\ ret \in Instances
    /\ \E p \in Instances : p # ret /\ storage[p].base = storage[ret].base

\* C6: for an instance the host frees exactly once, the record is dropped
\* exactly once, by that free: not before free is called, not while teardown
\* runs, and it is gone once free has returned.
C6_FreedExactlyOnce ==
    \A i \in Instances :
        storage[i].frees <= 1 =>
            /\ storage[i].frees = 0 =>
                   storage[i].drops = 0 /\ storage[i].lifecycle = "Created"
            /\ (storage[i].frees = 1 /\ TeardownOf(i)) =>
                   storage[i].drops = 0 /\ storage[i].lifecycle = "MarkedDestroyed"
            /\ (storage[i].frees = 1 /\ ~TeardownOf(i)) =>
                   storage[i].drops = 1 /\ storage[i].lifecycle = "Freed"

C6_Witness ==
    \E i \in Instances :
        /\ storage[i].frees = 1
        /\ storage[i].drops = 1
        /\ storage[i].lifecycle = "Freed"
        /\ stack = << >>

LinkedObjs(i) == {o \in hostObjs : objInstance[o] = i}

\* C7: every live record is linked to exactly one host handle, the one it
\* was built with, and no step changes the handle a record holds.
C7_OneHostHandlePerRecord ==
    [][ \A i \in DOMAIN storage' :
            /\ storage'[i].lifecycle # "Freed" =>
                   {o \in hostObjs' : objInstance'[o] = i} = {storage'[i].base}
            /\ i \in Instances => storage'[i].base = storage[i].base ]_vars

C7_Witness ==
    \E i \in Instances : \E j \in Instances :
        /\ i # j
        /\ Live(i) /\ Live(j)
        /\ LinkedObjs(i) = {storage[i].base}
        /\ LinkedObjs(j) = {storage[j].base}
        /\ storage[i].base # storage[j].base

\* The positions of the stack that hold a borrow of instance i.
BorrowFrames(i) ==
    {k \in 1..Len(stack) : stack[k].inst = i /\ stack[k].kind # "teardown"}

\* C15: while the user's notification handler runs the instance is borrowed
\* exclusively, no other borrow of the same instance is in progress next to
\* it (a reentrant borrowing callback ends in the fatal violation instead),
\* and no record is ever borrowed shared and exclusively at once.
C15_NotificationHoldsExclusiveBorrow ==
    /\ \A k \in 1..Len(stack) :
           stack[k].ep = "on_notification" =>
               /\ stack[k].kind = "exclusive"
               /\ storage[stack[k].inst].excl
               /\ storage[stack[k].inst].shared = 0
               /\ BorrowFrames(stack[k].inst) = {k}
    /\ \A i \in Instances :
           /\ ~(storage[i].excl /\ storage[i].shared > 0)
           /\ storage[i].excl => Cardinality(BorrowFrames(i)) = 1
    /\ fatal.cause = "reentrant" => BorrowFrames(fatal.inst) # {}

C15_Witness ==
    /\ fatal.cause = "reentrant"
    /\ \E k \in 1..Len(stack) :
           /\ stack[k].ep = "on_notification"
           /\ stack[k].inst = fatal.inst
           /\ storage[fatal.inst].excl
           /\ BorrowFrames(fatal.inst) = {k}

\* The version-gated definitions of callbacks.rs: name, cfg attribute and the
\* parameter the gated signature has or lacks.
Definition(name, cfg, version, shape) ==
    [name |-> name, cfg |-> cfg, version |-> version, shape |-> shape]

\* The same table with the second on_notification gated since 4.3.
GatedDefinitions_gap ==
    {Definition("create", "since_api", 44, "notify_postinitialize"),
     Definition("create", "before_api", 44, "plain"),
     Definition("recreate", "since_api", 42, "plain"),
     Definition("get_virtual", "since_api", 44, "hash"),
     Definition("get_virtual", "before_api", 44, "plain"),
     Definition("default_get_virtual", "since_api", 44, "hash"),
     Definition("default_get_virtual", "before_api", 44, "plain"),
     Definition("on_notification", "before_api", 42, "plain"),
     Definition("on_notification", "since_api", 43, "reversed")}

GatedDefinitions ==
    {Definition("create", "since_api", 44, "notify_postinitialize"),
     Definition("create", "before_api", 44, "plain"),
     Definition("recreate", "since_api", 42, "plain"),
     Definition("get_virtual", "since_api", 44, "hash"),
     Definition("get_virtual", "before_api", 44, "plain"),
     Definition("default_get_virtual", "since_api", 44, "hash"),
     Definition("default_get_virtual", "before_api", 44, "plain"),
     Definition("on_notification", "before_api", 42, "plain"),
     Definition("on_notification", "since_api", 42, "reversed")}

\* The definitions of `name` that the build compiles in.
CompiledDefinitions(name) ==
    {d \in GatedDefinitions :
        /\ d.name = name
        /\ IF d.cfg = "since_api" THEN since_api(d.version)
                                  ELSE before_api(d.version)}

\* C23: on every API level the build holds exactly one definition of each
\* of create, get_virtual, default_get_virtual and on_notification, holds
\* recreate exactly from 4.2 on (and recreate runs on such builds only), and
\* the API level, which alone decides the shape, changes at no call.
C23_OneDefinitionPerBuild ==
    [][ /\ api' = api
        /\ \A name \in {"create", "get_virtual", "default_get_virtual",
                         "on_notification"} :
               Cardinality(CompiledDefinitions(name)') = 1
        /\ Cardinality(CompiledDefinitions("recreate")') =
               (IF api' >= 42 THEN 1 ELSE 0)
        /\ lastOp' = "recreate" => CompiledDefinitions("recreate")' # {}
        /\ (\E k \in 1..Len(stack') : stack'[k].ep = "on_notification") =>
               CompiledDefinitions("on_notification")' # {}
      ]_vars

C23_Witness ==
    /\ api = 42
    /\ lastOp = "recreate"
    /\ \E d \in CompiledDefinitions("on_notification") : d.shape = "reversed"
    /\ \E d \in CompiledDefinitions("get_virtual") : d.shape = "plain"
    /\ \E k \in 1..Len(stack) : stack[k].ep = "on_notification"

\* The borrow each entry point is said to take; free takes none and is on
\* the stack as a teardown.
SharedEntryPoints ==
    {"to_string", "get_property", "property_get_revert", "property_can_revert"}
ExclusiveEntryPoints == {"on_notification", "set_property", "get_property_list"}

\* C25: every callback in progress holds the borrow of its entry point,
\* shared for to_string, get_property and the two revert callbacks, exclusive
\* for on_notification, set_property and get_property_list, none for free;
\* next to an exclusive borrow no second borrow of the same instance is ever
\* granted, and a refused borrow on a live instance met an exclusive borrow
\* in progress or asked for one next to shared borrows.
C25_BorrowKindPerEntryPoint ==
    /\ \A k \in 1..Len(stack) :
           /\ stack[k].ep \in SharedEntryPoints => stack[k].kind = "shared"
           /\ stack[k].ep \in ExclusiveEntryPoints => stack[k].kind = "exclusive"
           /\ stack[k].ep = "free" => stack[k].kind = "teardown"
           /\ stack[k].ep \in SharedEntryPoints \cup ExclusiveEntryPoints \cup {"free"}
           /\ stack[k].kind = "exclusive" =>
                  \A j \in BorrowFrames(stack[k].inst) : j = k
    /\ fatal.cause = "reentrant" =>
           \/ \E k \in BorrowFrames(fatal.inst) : stack[k].kind = "exclusive"
           \/ /\ fatal.ep \in ExclusiveEntryPoints
              /\ BorrowFrames(fatal.inst) # {}

C25_Witness ==
    \E i \in Instances :
        /\ stack = << Frame("to_string", i, "shared"),
                      Frame("get_property", i, "shared") >>
        /\ storage[i].shared = 2
        /\ fatal = NoFatal

----------------------------------------------------------------------------
\* Properties of reference / unreference (checked under RSpec).

\* C16: whenever as many unreference calls as reference calls have been made
\* on an instance, its external count is the count c it started from, for
\* every number of calls from none on; and no reference or unreference call
\* changes anything else in the record.
C16_ReferenceUnreferenceRestore ==
    [][ \A i \in DOMAIN refLog :
            /\ refLog'[i].inc = refLog'[i].dec =>
                   storage'[i].refs = refLog'[i].start
            /\ [storage'[i] EXCEPT !.refs = 0] = [storage[i] EXCEPT !.refs = 0]
      ]_vars

C16_Witness ==
    \E i \in DOMAIN refLog :
        /\ base \in RefCountedBases
        /\ refLog[i].inc = 2
        /\ refLog[i].dec = 2
        /\ refLog[i].start = 1
        /\ storage[i].refs = 1

----------------------------------------------------------------------------
\* Properties of the property bridge (checked under PSpec).

\* C17: for a class declaring no, one or several properties, the array
\* handed out by get_property_list holds one owned sub-structure per declared
\* property; the paired free_property_list reclaims the array once and each
\* sub-structure once, before it nothing is reclaimed and nothing is ever
\* reclaimed twice; with a count of 0 there is no sub-structure to free and
\* the call completes.
C17_PropertyListRoundTrip ==
    /\ \A l \in DOMAIN lists :
           /\ lists[l].count = nprops
           /\ DOMAIN lists[l].ownedFrees = 1..nprops
           /\ lists[l].arrayFrees <= 1
           /\ \A k \in 1..nprops : lists[l].ownedFrees[k] = lists[l].arrayFrees
    /\ out.ep = "free_property_list" =>
           /\ lists[out.list].arrayFrees = 1
           /\ out.count = nprops

C17_Witness ==
    /\ nprops >= 2
    /\ out.ep = "free_property_list"
    /\ lists[out.list].arrayFrees = 1
    /\ \A k \in 1..nprops : lists[out.list].ownedFrees[k] = 1
    /\ \E l \in DOMAIN lists : lists[l].arrayFrees = 0

\* C18: an array handed out by get_property_list stays allocated and
\* unchanged until the free_property_list call that returns it: no other
\* callback (a further get_property_list, set_property, get_property, the
\* revert callbacks, free of the instance) reclaims or alters it.
C18_PropertyListOnLoanUntilFreed ==
    [][ \A l \in DOMAIN lists :
            lists[l].arrayFrees = 0 =>
                /\ l \in DOMAIN lists'
                /\ lists'[l] # lists[l] =>
                       (out'.ep = "free_property_list" /\ out'.list = l)
      ]_vars

C18_Witness ==
    \E l \in DOMAIN lists :
        /\ lists[l].arrayFrees = 0
        /\ lists[l].count >= 1
        /\ storage[lists[l].inst].lifecycle = "Freed"
        /\ \E m \in DOMAIN lists : m > l /\ lists[m].inst = lists[l].inst
        /\ storage[lists[l].inst].user[1] = 42

\* C19: for the same instance state and property name property_can_revert
\* and property_get_revert return true in the same cases, those in which the
\* user's code has a revert value; property_get_revert writes that value into
\* the output slot and leaves the slot unwritten when there is none;
\* property_can_revert writes nothing; neither changes the instance.
C19_CanRevertIffGetRevert ==
    [][ \A i \in Instances : \A n \in PropertyNames :
            (/\ out' # out
             /\ out'.ep \in {"property_can_revert", "property_get_revert"}
             /\ out'.inst = i
             /\ out'.name = n) =>
                LET revert == godot_property_get_revert(storage[i].user, n) IN
                /\ out'.ret = revert.some
                /\ out'.slot = IF out'.ep = "property_get_revert" /\ revert.some
                               THEN Written(revert.value)
                               ELSE Unwritten
                /\ storage' = storage
      ]_vars

C19_Witness ==
    /\ out.ep = "property_get_revert"
    /\ out.name = 1
    /\ out.ret
    /\ out.slot = Written(10)
    /\ storage[out.inst].lifecycle = "Created"
    /\ storage[out.inst].user[1] = 42

\* C20: get_property answers a property the user's code does not expose
\* with false and an unwritten output slot, without a fatal error, and a
\* property the user's code has a value for with true and exactly that value
\* in the slot; the instance is the same before and after.
C20_GetPropertyNoneIsFalse ==
    [][ \A i \in Instances : \A n \in PropertyNames :
            (/\ out' # out
             /\ out'.ep = "get_property"
             /\ out'.inst = i
             /\ out'.name = n) =>
                LET value == godot_get_property(storage[i].user, n) IN
                /\ out'.ret = value.some
                /\ out'.slot = IF value.some THEN Written(value.value)
                               ELSE Unwritten
                /\ storage' = storage
                /\ fatal' = NoFatal
      ]_vars

C20_Witness ==
    /\ out.ep = "get_property"
    /\ nprops >= 1
    /\ out.name \notin 1..nprops
    /\ ~out.ret
    /\ out.slot = Unwritten
    /\ fatal = NoFatal
    /\ storage[out.inst].user[1] = 42

\* C21: set_property returns true exactly when the user's setter recognised
\* the name and applied the value; the instance afterwards is the one the
\* setter left, and when false is returned it is the instance as it was:
\* the callback applies nothing of its own.
C21_SetPropertyTrueIffApplied ==
    [][ \A i \in Instances : \A n \in PropertyNames :
            (/\ out'.ep = "set_property"
             /\ out'.inst = i
             /\ out'.name = n
             /\ out' # out \/ storage'[i].user # storage[i].user) =>
                /\ \E v \in Values :
                       LET set == godot_set_property(storage[i].user, n, v) IN
                       /\ out'.ret = set.applied
                       /\ storage' = [storage EXCEPT ![i].user = set.user]
                /\ out'.slot = Unwritten
                /\ ~out'.ret => storage' = storage
      ]_vars

C21_Witness ==
    /\ out.ep = "set_property"
    /\ nprops >= 1
    /\ out.name \notin 1..nprops
    /\ ~out.ret
    /\ storage[out.inst].lifecycle = "Created"
    /\ storage[out.inst].user[1] = 42

----------------------------------------------------------------------------
\* Properties of the count of get_property_list (checked under CSpec).

\* C22: a call of get_property_list whose list has at most 2^32 - 1 elements
\* writes that number, which is the length of the returned array, to the
\* count field; a call whose list is longer ends in the fatal violation and
\* leaves the count field unwritten, so no truncated or wrapped count is
\* ever written.
C22_CountExactOrFatal ==
    [][ IF listLen.hi <= Limb - 1
        THEN /\ countField'.written
             /\ countField'.value = listLen
             /\ countField'.array = listLen
             /\ fatal' = NoFatal
        ELSE /\ fatal'.cause = "count_overflow"
             /\ countField' = NoCount
      ]_vars

C22_Witness ==
    /\ listLen = usize(Limb, 0)
    /\ fatal.cause = "count_overflow"
    /\ ~countField.written

----------------------------------------------------------------------------
\* Properties of the returns of the borrowing callbacks (checked under BSpec).

\* The callbacks in progress that hold a borrow of kind `kind` on instance i.
FramesOfKind(i, kind) ==
    {k \in 1..Len(stack) : stack[k].inst = i /\ stack[k].kind = kind}

\* C24: the borrows outstanding on a record are those of the callbacks still
\* in progress, so once every callback has returned no shared or exclusive
\* borrow is left on any instance, and an exclusive borrow on a live
\* instance is granted.
C24_BorrowReleasedAtReturn ==
    \A i \in Instances :
        /\ storage[i].shared = Cardinality(FramesOfKind(i, "shared"))
        /\ storage[i].excl <=> FramesOfKind(i, "exclusive") # {}
        /\ stack = << >> =>
               /\ ~Borrowed(i)
               /\ storage[i].lifecycle = "Created" =>
                      BorrowOutcome(i, "exclusive") = "ok"

C24_Witness ==
    /\ out.ep = "on_notification"
    /\ stack = << Frame("set_property", out.inst, "exclusive") >>
    /\ storage[out.inst].excl
    /\ fatal = NoFatal

----------------------------------------------------------------------------
\* Properties of the generated virtual table (checked under VSpec).

\* The build holds an override of the Rust method `name`.
OverrideCompiledIn(name) ==
    \E k \in 1..Len(items) : items[k].name = name /\ CfgHolds(items[k].cfg)

\* The hash the host passes for Node::_ready (none before 4.4).
ReadyHash == IF since_api(44) THEN known_virtual_hashes("Node", "ready") ELSE 0

\* C8: for a class that overrides ready, every delivery of ready runs the
\* before-hook first and the user body second, the hook exactly once per
\* delivery, on the first delivery and on every later one.
C8_BeforeHookThenBody ==
    (OverrideCompiledIn("ready") /\ nDelivered > 0) =>
        /\ delivered = << "__before_ready", "ready" >>
        /\ hookRuns = nDelivered
        /\ bodyRuns = nDelivered

C8_Witness ==
    /\ OverrideCompiledIn("ready")
    /\ nDelivered = 2
    /\ hookRuns = 2
    /\ delivered[1] = "__before_ready"

\* C9: when the base may be a Node and the build holds no override of ready,
\* "_ready" still resolves to the synthetic entry that runs the before-hook.
C9_SyntheticReadyWithoutOverride ==
    (/\ is_possibly_node_class(base)
     /\ ~OverrideCompiledIn("ready")
     /\ gv.name = "_ready"
     /\ gv.hash = ReadyHash) =>
        gv.result = Some("OnlyBefore", "ready")

\* C10: for a method name the class does not override get_virtual returns
\* none for every hash, except for the synthetic ready entry, which is there
\* for every base type that supports ready.
C10_NoOverrideNoThunk ==
    \A m \in ItemNames \cup {"init_ext", "input"} :
        (~OverrideCompiledIn(m) /\ gv.name = virtual_method_name(m)) =>
            /\ gv.result \in {None, Some("OnlyBefore", "ready")}
            /\ gv.result # None => m = "ready"
            /\ (m = "ready" /\ "ready" \in TraitVirtuals(base) /\ gv.hash = ReadyHash)
                   => gv.result = Some("OnlyBefore", "ready")

\* The hash recorded for the compiled-in override of the Rust method m.
RecordedHash(m) == known_virtual_hashes(base, m)

\* C11: on a build whose interface carries a hash, get_virtual for an
\* overridden method yields the thunk exactly when the hash asked for is the
\* recorded one, and none for every other hash.
C11_HashMismatchYieldsNone ==
    \A m \in ItemNames :
        (/\ since_api(44)
         /\ OverrideCompiledIn(m)
         /\ gv.name = virtual_method_name(m)) =>
            /\ gv.hash # RecordedHash(m) => gv.result = None
            /\ gv.hash = RecordedHash(m) => gv.result = Some(before_kind(m), m)

C11_Witness ==
    /\ since_api(44)
    /\ OverrideCompiledIn("ready")
    /\ gv.name = "_ready"
    /\ gv.hash # RecordedHash("ready")
    /\ gv.result = None

\* The entries of the class's table that the build's cfg leaves in.
VisibleEntries ==
    LET arms == overridden_virtuals(base, items) IN
    {arms[k] : k \in {j \in 1..Len(arms) : CfgHolds(arms[j].cfg_attrs)}}

\* What a query was answered by under each of the two lookup policies.
AnsweredByNameAndHash ==
    \E v \in VisibleEntries :
        /\ gv.name = v.method_name
        /\ gv.hash = known_virtual_hashes(v.hash_constant[1], v.hash_constant[2])

AnsweredByName == \E v \in VisibleEntries : gv.name = v.method_name

LookupPolicyOfBuild ==
    gv # NoQuery =>
        IF since_api(44)
        THEN /\ gv.hash # 0
             /\ gv.result # None <=> AnsweredByNameAndHash
        ELSE /\ gv.hash = 0
             /\ gv.result # None <=> AnsweredByName

\* C12: the lookup policy belongs to the build and agrees with the signature
\* of get_virtual: since 4.4 get_virtual carries a hash and every entry, the
\* synthetic one included, answers on (name, hash) only; before 4.4 there is
\* no hash parameter and every entry answers on its name; the API level, and
\* with it the policy, changes at no call.
C12_OnePolicyPerBuild ==
    [][ api' = api /\ LookupPolicyOfBuild' ]_vars

C12_Witness ==
    /\ before_api(44)
    /\ gv.name = "_process"
    /\ gv.hash = 0
    /\ gv.result = Some("Without", "process")

\* The positions of the table whose entry the build's cfg leaves in and
\* whose method name is `name`.
VisiblePositions(name) ==
    LET arms == overridden_virtuals(base, items) IN
    {k \in 1..Len(arms) : CfgHolds(arms[k].cfg_attrs) /\ arms[k].method_name = name}

\* C13: in every build configuration the table holds at most one visible
\* entry per method name, and next to a compiled-in override of ready there
\* is no synthetic "_ready" entry.
C13_OneVisibleEntryPerName ==
    /\ \A n \in QueryNames : Cardinality(VisiblePositions(n)) <= 1
    /\ OverrideCompiledIn("ready") =>
           \A k \in VisiblePositions("_ready") :
               overridden_virtuals(base, items)[k].before_kind = "WithBefore"

C13_Witness ==
    /\ OverrideCompiledIn("ready")
    /\ is_possibly_node_class(base)
    /\ Cardinality(VisiblePositions("_ready")) = 1
    /\ Cardinality(VisiblePositions("_process")) = 1
    /\ gv.name = "_ready"
    /\ gv.result = Some("WithBefore", "ready")

----------------------------------------------------------------------------
\* Properties of default_get_virtual (checked under DSpec).

\* The methods of the impl body that a thunk runs.
UserCodeRun(thunk) ==
    {ThunkRuns(thunk)[k] : k \in 1..Len(ThunkRuns(thunk))} \cap ItemNames

\* C14: default_get_virtual takes what get_virtual takes on every API level
\* (a hash since 4.4, none before) and resolves to a built-in thunk that
\* runs no method of the user's impl, whatever the class overrides.
C14_DefaultNeverUserCode ==
    dgv # NoQuery =>
        /\ dgv.hash # 0 <=> since_api(44)
        /\ dgv.hash \in QueryHashes
        /\ dgv.result.kind \notin {"WithBefore", "Without"}
        /\ UserCodeRun(dgv.result) = {}

C14_Witness ==
    /\ OverrideCompiledIn("ready")
    /\ dgv.name = "_ready"
    /\ dgv.hash = ReadyHash
    /\ UserCodeRun(dgv.result) = {}
    /\ UserCodeRun(virtual_call("_ready", ReadyHash)) = {"ready"}

----------------------------------------------------------------------------
\* Properties of the generated descriptor (checked under GSpec).

\* The optional fields of the descriptor and the user method each stands for.
UserMethodOf ==
    [user_register_fn |-> "register_class", user_create_fn |-> "init",
     user_recreate_fn |-> "init", user_to_string_fn |-> "to_string",
     user_on_notification_fn |-> "on_notification",
     user_set_fn |-> "set_property", user_get_fn |-> "get_property",
     user_get_property_list_fn |-> "get_property_list",
     user_free_property_list_fn |-> "get_property_list",
     user_property_get_revert_fn |-> "property_get_revert",
     user_property_can_revert_fn |-> "property_get_revert"]

\* C26: in the descriptor added for a class free_property_list is there
\* exactly when get_property_list is, property_can_revert exactly when
\* property_get_revert is, recreate exactly when create is from 4.2 on and
\* never before 4.2; an optional callback is there only if the build holds
\* the class's implementation of its user method; get_virtual is always
\* there.
C26_DescriptorPairs ==
    plugin.added =>
        /\ plugin.user_free_property_list_fn <=> plugin.user_get_property_list_fn
        /\ plugin.user_property_can_revert_fn <=> plugin.user_property_get_revert_fn
        /\ since_api(42) => (plugin.user_recreate_fn <=> plugin.user_create_fn)
        /\ before_api(42) => ~plugin.user_recreate_fn
        /\ \A f \in DOMAIN UserMethodOf :
               plugin[f] => OverrideCompiledIn(UserMethodOf[f])
        /\ plugin.get_virtual_fn

C26_Witness ==
    /\ plugin.added
    /\ since_api(43)
    /\ items = << Item("init", "none"), Item("get_property_list", "feature") >>
    /\ plugin.user_create_fn /\ plugin.user_recreate_fn
    /\ plugin.user_get_property_list_fn /\ plugin.user_free_property_list_fn
    /\ ~plugin.user_property_get_revert_fn /\ ~plugin.user_property_can_revert_fn
====
